---- MODULE Spec2Model ----
(***************************************************************************)
(* Model of cmd/pilot/main.go: the process bootstrap of pilot.  One run of *)
(* the binary executes rootCmd.PersistentPreRunE, then the RunE of the     *)
(* selected command (discovery, sidecar, ingress, egress), then main's     *)
(* exit.  The loops the commands launch with `go X.Run(stop)` are the      *)
(* managed loops; their bodies live in other packages and follow the       *)
(* lifecycle Created -> Starting -> Running -> Stopping -> Stopped.        *)
(*                                                                         *)
(* Go scoping is modelled as written: `x := ...` inside an if-block        *)
(* declares a new x that dies with the block, so the function-level x      *)
(* keeps its old value (sidecarCmd, lines 223-232 and 254).                *)
(***************************************************************************)
EXTENDS Naturals, Integers, Sequences, FiniteSets, TLC

VARIABLES
    adapter,            \* flags.adapter
    command,            \* the cobra command selected on the command line
    pc,                 \* position of the main goroutine ("L<n>" = line n)
    err,                \* the error the running function returns to cobra
    exit,               \* process status: "alive", "exit0", "exitNonZero", "panic"
    client,             \* package var client (kubernetes.Interface)
    vmsClient,          \* package var vmsClient
    mesh,               \* package var mesh
    tprClient,          \* discoveryCmd local tprClient
    registered,         \* tprClient.RegisterResources() has succeeded
    serviceController,  \* function-level var serviceController of the RunE
    configController,   \* function-level var configController of the RunE
    syncersBuilt,       \* number of ingress.NewStatusSyncer calls so far
    ingressSyncer,      \* the syncer ingressSyncer names, by the handle it was built on
    failedStep,         \* the construction step that failed, or "none"
    nilUses,            \* <<line, handle>>: a nil handle used at that line
    stop,               \* the stop channel is closed
    loopState,          \* lifecycle state of each managed loop
    loopStop,           \* the cancellation channel each loop was launched with
    loopOn,             \* the object each loop was launched on
    synced,             \* the loop has done its first successful list/sync
    timedOut,           \* the loop's start-up timeout elapsed before Running
    sources,            \* the stores given to aggregate.MakeCache, in order
    srcStore,           \* each config source's own store: key -> object
    index               \* the aggregate cache's merged index: key -> entry

ctlVars == <<adapter, command, pc, err, exit, client, vmsClient, mesh,
             tprClient, registered, serviceController, configController,
             syncersBuilt, ingressSyncer, failedStep, nilUses>>
loopVars == <<stop, loopState, loopStop, loopOn, synced, timedOut>>
cacheVars == <<sources, srcStore, index>>
vars == <<ctlVars, loopVars, cacheVars>>

----------------------------------------------------------------------------
(* Constants of the program *)

KubernetesAdapter == "Kubernetes"
VMsAdapter == "VMs"

\* the values of --adapter: unset, the two known ones, any other string
Adapters == {"", KubernetesAdapter, VMsAdapter, "Other"}
Commands == {"discovery", "sidecar", "ingress", "egress"}

Loops == {"service", "config", "discovery", "syncer", "watcher"}
Consumers == {"discovery", "syncer", "watcher"}
\* the lifecycle of a managed loop, one step at a time
LifecycleSteps == {<<"Created", "Starting">>, <<"Starting", "Running">>,
                   <<"Running", "Stopping">>, <<"Stopping", "Stopped">>}

\* the two stores aggregate.MakeCache is given by discoveryCmd, in order
DiscoverySources_Swapped == <<"ingress", "tpr">>
DiscoverySources == <<"tpr", "ingress">>

----------------------------------------------------------------------------
(* Bounds of the aggregate-cache model *)

NumKeys == 1
MaxRev == 2

Keys == 1..NumKeys
Revs == 1..MaxRev
SourceNames == {"tpr", "ingress"}
NotFound == <<>>
\* a ConfigObject is identified by the source that published it and its revision
Objects == SourceNames \X Revs

----------------------------------------------------------------------------
(* Helpers *)

Alive == exit = "alive"

\* `return <non-nil error>` from PersistentPreRunE or RunE
ReturnError(step) ==
    /\ err' = "error"
    /\ failedStep' = step
    /\ pc' = "returned"

\* the handles among hs that are nil, tagged with the line that uses them
NilAt(line, hs) == {<<line, h[1]>> : h \in {x \in hs : x[2] = "nil"}}

\* `go X.Run(stop)` / `go X.Run()`: the loop's task is created and scheduled
Launch(l, obj, ch) ==
    /\ loopState' = [loopState EXCEPT ![l] = "Starting"]
    /\ loopStop' = [loopStop EXCEPT ![l] = ch]
    /\ loopOn' = [loopOn EXCEPT ![l] = obj]

\* calling a method on a nil interface value panics in the calling goroutine
Panic(line, h) ==
    /\ pc' = "panic"
    /\ exit' = "panic"
    /\ nilUses' = nilUses \cup {<<line, h>>}

----------------------------------------------------------------------------
(* Initial state: the process has parsed its flags *)

Init ==
    /\ adapter \in Adapters
    /\ command \in Commands
    /\ pc = "L92"
    /\ err = "nil"
    /\ exit = "alive"
    /\ client = "nil"
    /\ vmsClient = "nil"
    /\ mesh = "nil"
    /\ tprClient = "nil"
    /\ registered = FALSE
    /\ serviceController = "nil"
    /\ configController = "nil"
    /\ syncersBuilt = 0
    /\ ingressSyncer = "nil"
    /\ failedStep = "none"
    /\ nilUses = {}
    /\ stop = FALSE
    /\ loopState = [l \in Loops |-> "Created"]
    /\ loopStop = [l \in Loops |-> "unset"]
    /\ loopOn = [l \in Loops |-> "nil"]
    /\ synced = [l \in Loops |-> FALSE]
    /\ timedOut = [l \in Loops |-> FALSE]
    /\ sources = <<>>
    /\ srcStore = [s \in SourceNames |-> [k \in Keys |-> NotFound]]
    /\ index = [k \in Keys |-> NotFound]

----------------------------------------------------------------------------
(* rootCmd.PersistentPreRunE *)

\* the first line of the RunE of the selected command
Entry(c) ==
    CASE c = "discovery" -> "L151"
      [] c = "sidecar" -> "L220"
      [] c = "ingress" -> "L295"
      [] c = "egress" -> "L312"

PersistentPreRunE ==
    /\ pc = "L92"
    /\ LET a == IF adapter = "" THEN KubernetesAdapter ELSE adapter IN
       /\ adapter' = a
       /\ \/ /\ a = KubernetesAdapter
             /\ \E createOk \in BOOLEAN, meshOk \in BOOLEAN :
                  IF ~createOk
                  THEN /\ ReturnError("kube.CreateInterface")
                       /\ UNCHANGED <<client, mesh>>
                  ELSE /\ client' = "ok"
                       /\ IF ~meshOk
                          THEN /\ ReturnError("cmd.GetMeshConfig")
                               /\ UNCHANGED mesh
                          ELSE /\ mesh' = "ok"
                               /\ pc' = Entry(command)
                               /\ UNCHANGED <<err, failedStep>>
             /\ UNCHANGED vmsClient
          \/ /\ a = VMsAdapter
             /\ \E newOk \in BOOLEAN :
                  IF ~newOk
                  THEN /\ ReturnError("vmsclient.New")
                       /\ UNCHANGED <<vmsClient, mesh>>
                  ELSE /\ vmsClient' = "ok"
                       /\ mesh' = "ok"
                       /\ pc' = Entry(command)
                       /\ UNCHANGED <<err, failedStep>>
             /\ UNCHANGED client
          \/ /\ a \notin {KubernetesAdapter, VMsAdapter}
             /\ pc' = Entry(command)
             /\ UNCHANGED <<err, failedStep, client, vmsClient, mesh>>
    /\ UNCHANGED <<command, exit, tprClient, registered, serviceController,
                   configController, syncersBuilt, ingressSyncer, nilUses>>
    /\ UNCHANGED <<loopVars, cacheVars>>

----------------------------------------------------------------------------
(* discoveryCmd.RunE *)

\* lines 151, 173: neither adapter branch is taken
D_NoAdapter ==
    /\ pc = "L151"
    /\ adapter \notin {KubernetesAdapter, VMsAdapter}
    /\ pc' = "L183"
    /\ UNCHANGED <<adapter, command, err, exit, client, vmsClient, mesh,
                   tprClient, registered, serviceController, configController,
                   syncersBuilt, ingressSyncer, failedStep, nilUses>>
    /\ UNCHANGED <<loopVars, cacheVars>>

\* lines 152-158: tpr.NewClient
D_NewTPRClient ==
    /\ pc = "L151"
    /\ adapter = KubernetesAdapter
    /\ \E ok \in BOOLEAN :
         IF ok
         THEN /\ tprClient' = "ok"
              /\ pc' = "L160"
              /\ UNCHANGED <<err, failedStep>>
         ELSE /\ ReturnError("tpr.NewClient")
              /\ UNCHANGED tprClient
    /\ UNCHANGED <<adapter, command, exit, client, vmsClient, mesh,
                   registered, serviceController, configController,
                   syncersBuilt, ingressSyncer, nilUses>>
    /\ UNCHANGED <<loopVars, cacheVars>>

\* lines 160-162: tprClient.RegisterResources
D_RegisterResources_Skipped ==
    /\ pc = "L160"
    /\ \E ok \in BOOLEAN :
         IF ok
         THEN /\ pc' = "L164"
              /\ UNCHANGED <<registered, err, failedStep>>
         ELSE /\ ReturnError("tprClient.RegisterResources")
              /\ UNCHANGED registered
    /\ UNCHANGED <<adapter, command, exit, client, vmsClient, mesh, tprClient,
                   serviceController, configController, syncersBuilt,
                   ingressSyncer, nilUses>>
    /\ UNCHANGED <<loopVars, cacheVars>>
D_RegisterResources ==
    /\ pc = "L160"
    /\ \E ok \in BOOLEAN :
         IF ok
         THEN /\ registered' = TRUE
              /\ pc' = "L164"
              /\ UNCHANGED <<err, failedStep>>
         ELSE /\ ReturnError("tprClient.RegisterResources")
              /\ UNCHANGED registered
    /\ UNCHANGED <<adapter, command, exit, client, vmsClient, mesh, tprClient,
                   serviceController, configController, syncersBuilt,
                   ingressSyncer, nilUses>>
    /\ UNCHANGED <<loopVars, cacheVars>>

\* lines 164-172: kube.NewController, aggregate.MakeCache over the TPR and
\* ingress controllers, ingress.NewStatusSyncer(mesh, client, ...)
D_KubeControllers ==
    /\ pc = "L164"
    /\ serviceController' = "kube"
    /\ \E ok \in BOOLEAN :
         IF ok
         THEN /\ configController' = "aggregate"
              /\ sources' = DiscoverySources
              /\ syncersBuilt' = syncersBuilt + 1
              /\ ingressSyncer' = "syncer(client)"
              /\ nilUses' = nilUses \cup NilAt(164, {<<"client", client>>, <<"mesh", mesh>>})
              /\ pc' = "L183"
              /\ UNCHANGED <<err, failedStep>>
         ELSE /\ ReturnError("aggregate.MakeCache")
              /\ nilUses' = nilUses \cup NilAt(164, {<<"client", client>>, <<"mesh", mesh>>})
              /\ UNCHANGED <<configController, sources, syncersBuilt, ingressSyncer>>
    /\ UNCHANGED <<adapter, command, exit, client, vmsClient, mesh, tprClient,
                   registered>>
    /\ UNCHANGED <<loopVars, srcStore, index>>

\* lines 174-180: one vms controller is both controllers; a status syncer is
\* built on vmsClient
D_VMsController ==
    /\ pc = "L151"
    /\ adapter = VMsAdapter
    /\ serviceController' = "vms"
    /\ configController' = "vms"
    /\ syncersBuilt' = syncersBuilt + 1
    /\ ingressSyncer' = "syncer(vmsClient)"
    /\ nilUses' = nilUses \cup NilAt(174, {<<"vmsClient", vmsClient>>, <<"mesh", mesh>>})
    /\ pc' = "L183"
    /\ UNCHANGED <<adapter, command, err, exit, client, vmsClient, mesh,
                   tprClient, registered, failedStep>>
    /\ UNCHANGED <<loopVars, cacheVars>>

\* lines 183-192: proxy.Context and envoy.NewDiscoveryService
D_NewDiscoveryService ==
    /\ pc = "L183"
    /\ nilUses' = nilUses \cup NilAt(183, {<<"serviceController", serviceController>>,
                                           <<"configController", configController>>,
                                           <<"mesh", mesh>>})
    /\ \E ok \in BOOLEAN :
         IF ok
         THEN /\ pc' = "L194"
              /\ UNCHANGED <<err, failedStep>>
         ELSE ReturnError("envoy.NewDiscoveryService")
    /\ UNCHANGED <<adapter, command, exit, client, vmsClient, mesh, tprClient,
                   registered, serviceController, configController,
                   syncersBuilt, ingressSyncer>>
    /\ UNCHANGED <<loopVars, cacheVars>>

\* line 194: ingressSyncer := ingress.NewStatusSyncer(mesh, client, ...)
\* builds another syncer, on client, whatever the adapter
D_NewStatusSyncer ==
    /\ pc = "L194"
    /\ syncersBuilt' = syncersBuilt + 1
    /\ ingressSyncer' = "syncer(client)"
    /\ nilUses' = nilUses \cup NilAt(194, {<<"client", client>>, <<"mesh", mesh>>})
    /\ pc' = "L196"
    /\ UNCHANGED <<adapter, command, err, exit, client, vmsClient, mesh,
                   tprClient, registered, serviceController, configController,
                   failedStep>>
    /\ UNCHANGED <<loopVars, cacheVars>>

\* lines 196-197: stop := make(chan struct{}); go serviceController.Run(stop)
D_GoService ==
    /\ pc = "L196"
    /\ IF serviceController = "nil"
       THEN /\ Panic(197, "serviceController")
            /\ UNCHANGED <<loopState, loopStop, loopOn>>
       ELSE /\ Launch("service", serviceController, "stop")
            /\ pc' = "L198"
            /\ UNCHANGED <<exit, nilUses>>
    /\ UNCHANGED <<adapter, command, err, client, vmsClient, mesh, tprClient,
                   registered, serviceController, configController,
                   syncersBuilt, ingressSyncer, failedStep>>
    /\ UNCHANGED <<stop, synced, timedOut, cacheVars>>

\* line 198: go configController.Run(stop)
D_GoConfig ==
    /\ pc = "L198"
    /\ IF configController = "nil"
       THEN /\ Panic(198, "configController")
            /\ UNCHANGED <<loopState, loopStop, loopOn>>
       ELSE /\ Launch("config", configController, "stop")
            /\ pc' = "L199"
            /\ UNCHANGED <<exit, nilUses>>
    /\ UNCHANGED <<adapter, command, err, client, vmsClient, mesh, tprClient,
                   registered, serviceController, configController,
                   syncersBuilt, ingressSyncer, failedStep>>
    /\ UNCHANGED <<stop, synced, timedOut, cacheVars>>

\* line 199: go discovery.Run(), which takes no stop channel
D_GoDiscovery ==
    /\ pc = "L199"
    /\ Launch("discovery", "discovery", "none")
    /\ pc' = "L200"
    /\ UNCHANGED <<adapter, command, err, exit, client, vmsClient, mesh,
                   tprClient, registered, serviceController, configController,
                   syncersBuilt, ingressSyncer, failedStep, nilUses>>
    /\ UNCHANGED <<stop, synced, timedOut, cacheVars>>

\* line 200: go ingressSyncer.Run(stop)
D_GoSyncer ==
    /\ pc = "L200"
    /\ Launch("syncer", ingressSyncer, "stop")
    /\ pc' = "L201"
    /\ UNCHANGED <<adapter, command, err, exit, client, vmsClient, mesh,
                   tprClient, registered, serviceController, configController,
                   syncersBuilt, ingressSyncer, failedStep, nilUses>>
    /\ UNCHANGED <<stop, synced, timedOut, cacheVars>>

\* line 203: return nil
D_Return ==
    /\ pc = "L203"
    /\ err' = "nil"
    /\ pc' = "returned"
    /\ UNCHANGED <<adapter, command, exit, client, vmsClient, mesh, tprClient,
                   registered, serviceController, configController,
                   syncersBuilt, ingressSyncer, failedStep, nilUses>>
    /\ UNCHANGED <<loopVars, cacheVars>>

DiscoveryCmd ==
    \/ D_NoAdapter \/ D_NewTPRClient \/ D_RegisterResources
    \/ D_KubeControllers \/ D_VMsController \/ D_NewDiscoveryService
    \/ D_NewStatusSyncer \/ D_GoService \/ D_GoConfig \/ D_GoDiscovery
    \/ D_GoSyncer \/ D_Return

----------------------------------------------------------------------------
(* sidecarCmd.RunE *)

\* line 220: mesh.IngressControllerMode = ...; mesh is nil when neither
\* adapter branch of PersistentPreRunE ran, and the store through nil panics
S_SetIngressMode ==
    /\ pc = "L220"
    /\ IF mesh = "nil"
       THEN Panic(220, "mesh")
       ELSE /\ pc' = "L222"
            /\ UNCHANGED <<exit, nilUses>>
    /\ UNCHANGED <<adapter, command, err, client, vmsClient, mesh, tprClient,
                   registered, serviceController, configController,
                   syncersBuilt, ingressSyncer, failedStep>>
    /\ UNCHANGED <<loopVars, cacheVars>>

\* lines 222-233: `serviceController := ...`, `tprClient, err := ...` and
\* `configController := ...` declare block-local variables, so the
\* function-level serviceController, configController and err keep their
\* values; the bare return of line 229 returns the function-level err.
\* RegisterResources is not called here.
S_Kube ==
    /\ pc = "L222"
    /\ adapter = KubernetesAdapter
    /\ nilUses' = nilUses \cup NilAt(223, {<<"client", client>>, <<"mesh", mesh>>})
    /\ \E ok \in BOOLEAN :
         IF ok
         THEN /\ pc' = "L264"
              /\ UNCHANGED failedStep
         ELSE /\ failedStep' = "tpr.NewClient"
              /\ pc' = "returned"
    /\ UNCHANGED <<adapter, command, err, exit, client, vmsClient, mesh,
                   tprClient, registered, serviceController, configController,
                   syncersBuilt, ingressSyncer>>
    /\ UNCHANGED <<loopVars, cacheVars>>

\* lines 234-262: the vms controller is assigned to both function-level
\* variables before the config file, the identity and the registration
\* agent are made; each of the three can fail
S_VMs ==
    /\ pc = "L222"
    /\ adapter = VMsAdapter
    /\ serviceController' = "vms"
    /\ configController' = "vms"
    /\ nilUses' = nilUses \cup NilAt(235, {<<"vmsClient", vmsClient>>, <<"mesh", mesh>>})
    /\ \E outcome \in {"ok", "vmsConfig.loadFromFile", "identity.New",
                       "register.NewRegistrationAgent"} :
         IF outcome = "ok"
         THEN /\ pc' = "L264"
              /\ UNCHANGED <<err, failedStep>>
         ELSE ReturnError(outcome)
    /\ UNCHANGED <<adapter, command, exit, client, vmsClient, mesh, tprClient,
                   registered, syncersBuilt, ingressSyncer>>
    /\ UNCHANGED <<loopVars, cacheVars>>

\* lines 264-278: proxy.Context and envoy.NewWatcher; `watcher, err :=` at
\* function level assigns the named result err, which line 277 returns
S_NewWatcher ==
    /\ pc = "L264"
    /\ nilUses' = nilUses \cup NilAt(264, {<<"serviceController", serviceController>>,
                                           <<"configController", configController>>,
                                           <<"mesh", mesh>>})
    /\ \E ok \in BOOLEAN :
         IF ok
         THEN /\ err' = "nil"
              /\ pc' = "L281"
              /\ UNCHANGED failedStep
         ELSE ReturnError("envoy.NewWatcher")
    /\ UNCHANGED <<adapter, command, exit, client, vmsClient, mesh, tprClient,
                   registered, serviceController, configController,
                   syncersBuilt, ingressSyncer>>
    /\ UNCHANGED <<loopVars, cacheVars>>

\* lines 281-282: stop := make(chan struct{}); go serviceController.Run(stop)
S_GoService ==
    /\ pc = "L281"
    /\ IF serviceController = "nil"
       THEN /\ Panic(282, "serviceController")
            /\ UNCHANGED <<loopState, loopStop, loopOn>>
       ELSE /\ Launch("service", serviceController, "stop")
            /\ pc' = "L283"
            /\ UNCHANGED <<exit, nilUses>>
    /\ UNCHANGED <<adapter, command, err, client, vmsClient, mesh, tprClient,
                   registered, serviceController, configController,
                   syncersBuilt, ingressSyncer, failedStep>>
    /\ UNCHANGED <<stop, synced, timedOut, cacheVars>>

\* line 283: go configController.Run(stop)
S_GoConfig ==
    /\ pc = "L283"
    /\ IF configController = "nil"
       THEN /\ Panic(283, "configController")
            /\ UNCHANGED <<loopState, loopStop, loopOn>>
       ELSE /\ Launch("config", configController, "stop")
            /\ pc' = "L284"
            /\ UNCHANGED <<exit, nilUses>>
    /\ UNCHANGED <<adapter, command, err, client, vmsClient, mesh, tprClient,
                   registered, serviceController, configController,
                   syncersBuilt, ingressSyncer, failedStep>>
    /\ UNCHANGED <<stop, synced, timedOut, cacheVars>>

\* line 284: go watcher.Run(stop)
S_GoWatcher ==
    /\ pc = "L284"
    /\ Launch("watcher", "watcher", "stop")
    /\ pc' = "L285"
    /\ UNCHANGED <<adapter, command, err, exit, client, vmsClient, mesh,
                   tprClient, registered, serviceController, configController,
                   syncersBuilt, ingressSyncer, failedStep, nilUses>>
    /\ UNCHANGED <<stop, synced, timedOut, cacheVars>>

\* line 287: bare return of the named result err, nil since line 275
S_Return ==
    /\ pc = "L287"
    /\ pc' = "returned"
    /\ UNCHANGED <<adapter, command, err, exit, client, vmsClient, mesh,
                   tprClient, registered, serviceController, configController,
                   syncersBuilt, ingressSyncer, failedStep, nilUses>>
    /\ UNCHANGED <<loopVars, cacheVars>>

SidecarCmd ==
    \/ S_SetIngressMode \/ S_Kube \/ S_VMs \/ S_NewWatcher
    \/ S_GoService \/ S_GoConfig \/ S_GoWatcher \/ S_Return

----------------------------------------------------------------------------
(* ingressCmd.RunE and egressCmd.RunE *)

\* lines 295-298: envoy.NewIngressWatcher(mesh, kube.MakeSecretRegistry(client))
I_NewIngressWatcher ==
    /\ pc = "L295"
    /\ nilUses' = nilUses \cup NilAt(295, {<<"client", client>>, <<"mesh", mesh>>})
    /\ \E ok \in BOOLEAN :
         IF ok
         THEN /\ pc' = "L300"
              /\ UNCHANGED <<err, failedStep>>
         ELSE ReturnError("envoy.NewIngressWatcher")
    /\ UNCHANGED <<adapter, command, exit, client, vmsClient, mesh, tprClient,
                   registered, serviceController, configController,
                   syncersBuilt, ingressSyncer>>
    /\ UNCHANGED <<loopVars, cacheVars>>

\* lines 300-301: stop := make(chan struct{}); go watcher.Run(stop)
I_GoWatcher ==
    /\ pc = "L300"
    /\ Launch("watcher", "ingressWatcher", "stop")
    /\ pc' = "L302"
    /\ UNCHANGED <<adapter, command, err, exit, client, vmsClient, mesh,
                   tprClient, registered, serviceController, configController,
                   syncersBuilt, ingressSyncer, failedStep, nilUses>>
    /\ UNCHANGED <<stop, synced, timedOut, cacheVars>>

\* line 304: return nil
I_Return ==
    /\ pc = "L304"
    /\ err' = "nil"
    /\ pc' = "returned"
    /\ UNCHANGED <<adapter, command, exit, client, vmsClient, mesh, tprClient,
                   registered, serviceController, configController,
                   syncersBuilt, ingressSyncer, failedStep, nilUses>>
    /\ UNCHANGED <<loopVars, cacheVars>>

\* lines 312-315: envoy.NewEgressWatcher(mesh)
E_NewEgressWatcher ==
    /\ pc = "L312"
    /\ nilUses' = nilUses \cup NilAt(312, {<<"mesh", mesh>>})
    /\ \E ok \in BOOLEAN :
         IF ok
         THEN /\ pc' = "L316"
              /\ UNCHANGED <<err, failedStep>>
         ELSE ReturnError("envoy.NewEgressWatcher")
    /\ UNCHANGED <<adapter, command, exit, client, vmsClient, mesh, tprClient,
                   registered, serviceController, configController,
                   syncersBuilt, ingressSyncer>>
    /\ UNCHANGED <<loopVars, cacheVars>>

\* lines 316-317: stop := make(chan struct{}); go watcher.Run(stop)
E_GoWatcher ==
    /\ pc = "L316"
    /\ Launch("watcher", "egressWatcher", "stop")
    /\ pc' = "L318"
    /\ UNCHANGED <<adapter, command, err, exit, client, vmsClient, mesh,
                   tprClient, registered, serviceController, configController,
                   syncersBuilt, ingressSyncer, failedStep, nilUses>>
    /\ UNCHANGED <<stop, synced, timedOut, cacheVars>>

\* line 319: return nil
E_Return ==
    /\ pc = "L319"
    /\ err' = "nil"
    /\ pc' = "returned"
    /\ UNCHANGED <<adapter, command, exit, client, vmsClient, mesh, tprClient,
                   registered, serviceController, configController,
                   syncersBuilt, ingressSyncer, failedStep, nilUses>>
    /\ UNCHANGED <<loopVars, cacheVars>>

IngressCmd == I_NewIngressWatcher \/ I_GoWatcher \/ I_Return
EgressCmd == E_NewEgressWatcher \/ E_GoWatcher \/ E_Return

----------------------------------------------------------------------------
(* cmd.WaitSignal(stop), lines 201, 285, 302, 318: blocks until the process *)
(* receives a termination signal, closes stop and returns.  It is given    *)
(* the stop channel only, so it has no handle on the launched loops.       *)

AfterWait(p) ==
    CASE p = "L201" -> "L203"
      [] p = "L285" -> "L287"
      [] p = "L302" -> "L304"
      [] p = "L318" -> "L319"

WaitSignal ==
    /\ pc \in {"L201", "L285", "L302", "L318"}
    /\ stop' = TRUE
    /\ pc' = AfterWait(pc)
    /\ UNCHANGED <<adapter, command, err, exit, client, vmsClient, mesh,
                   tprClient, registered, serviceController, configController,
                   syncersBuilt, ingressSyncer, failedStep, nilUses>>
    /\ UNCHANGED <<loopState, loopStop, loopOn, synced, timedOut, cacheVars>>

----------------------------------------------------------------------------
(* The managed loops (the Run methods): each launched loop is a task of    *)
(* its own and takes its steps while the process is alive.                 *)

\* Starting -> Running: the loop has performed its first successful list/sync
LoopSync(l) ==
    /\ Alive
    /\ loopState[l] = "Starting"
    /\ loopState' = [loopState EXCEPT ![l] = "Running"]
    /\ synced' = [synced EXCEPT ![l] = TRUE]
    /\ UNCHANGED <<ctlVars, stop, loopStop, loopOn, timedOut, cacheVars>>

\* Running -> Stopping: the loop sees the stop channel it was given closed
LoopObserveStop_AnyState(l) ==
    /\ Alive
    /\ loopState[l] \in {"Starting", "Running"}
    /\ loopStop[l] = "stop"
    /\ stop
    /\ loopState' = [loopState EXCEPT ![l] = "Stopping"]
    /\ UNCHANGED <<ctlVars, stop, loopStop, loopOn, synced, timedOut, cacheVars>>
LoopObserveStop(l) ==
    /\ Alive
    /\ loopState[l] = "Running"
    /\ loopStop[l] = "stop"
    /\ stop
    /\ loopState' = [loopState EXCEPT ![l] = "Stopping"]
    /\ UNCHANGED <<ctlVars, stop, loopStop, loopOn, synced, timedOut, cacheVars>>

\* Stopping -> Stopped: the loop's task has returned
LoopReturn(l) ==
    /\ Alive
    /\ loopState[l] = "Stopping"
    /\ loopState' = [loopState EXCEPT ![l] = "Stopped"]
    /\ UNCHANGED <<ctlVars, stop, loopStop, loopOn, synced, timedOut, cacheVars>>

\* the loop's start-up timeout elapses while it has not reached Running;
\* nothing in the commands waits for a loop or watches such a timeout
StartupTimeout(l) ==
    /\ Alive
    /\ loopState[l] = "Starting"
    /\ ~timedOut[l]
    /\ timedOut' = [timedOut EXCEPT ![l] = TRUE]
    /\ UNCHANGED <<ctlVars, stop, loopState, loopStop, loopOn, synced, cacheVars>>

LoopStep ==
    \E l \in Loops :
        LoopSync(l) \/ LoopObserveStop(l) \/ LoopReturn(l) \/ StartupTimeout(l)

----------------------------------------------------------------------------
(* The aggregate cache made by aggregate.MakeCache: a merged index over    *)
(* the registered sources, kept by the merge loop that consumes their      *)
(* change events while the cache's Run loop is running.                    *)

Min(S) == CHOOSE x \in S : \A y \in S : x <= y

\* registration position of source s
Prio(s) == CHOOSE i \in 1..Len(sources) : sources[i] = s

\* positions of the registered sources that hold an object for key k
Holders(store, k) == {i \in 1..Len(sources) : store[sources[i]][k] # NotFound}

\* the object of the earliest-registered source that holds k
Winner(store, k) ==
    IF Holders(store, k) = {} THEN NotFound
    ELSE store[sources[Min(Holders(store, k))]][k]

\* AggregateCache.Get
Get(k) == index[k]

CacheRunning ==
    /\ Alive
    /\ loopState["config"] = "Running"
    /\ loopOn["config"] = "aggregate"

\* merge of an Added/Updated event of source s: a later-registered source
\* does not displace the object of an earlier one
MergePut(s, k, o) ==
    IF index[k] = NotFound \/ Prio(s) <= Prio(index[k][1])
    THEN [index EXCEPT ![k] = o]
    ELSE index

\* merge of a Deleted event of source s: when s owned the entry, the next
\* registered source that holds k takes over
MergeDelete(s, k, store) ==
    IF index[k] # NotFound /\ index[k][1] = s
    THEN [index EXCEPT ![k] = Winner(store, k)]
    ELSE index

SourceAdded(s, k, r) ==
    /\ CacheRunning
    /\ srcStore[s][k] = NotFound
    /\ srcStore' = [srcStore EXCEPT ![s][k] = <<s, r>>]
    /\ index' = MergePut(s, k, <<s, r>>)
    /\ UNCHANGED <<ctlVars, loopVars, sources>>

SourceUpdated(s, k, r) ==
    /\ CacheRunning
    /\ srcStore[s][k] # NotFound
    /\ srcStore[s][k] # <<s, r>>
    /\ srcStore' = [srcStore EXCEPT ![s][k] = <<s, r>>]
    /\ index' = MergePut(s, k, <<s, r>>)
    /\ UNCHANGED <<ctlVars, loopVars, sources>>

SourceDeleted(s, k) ==
    /\ CacheRunning
    /\ srcStore[s][k] # NotFound
    /\ srcStore' = [srcStore EXCEPT ![s][k] = NotFound]
    /\ index' = MergeDelete(s, k, srcStore')
    /\ UNCHANGED <<ctlVars, loopVars, sources>>

SourceEvent ==
    \E s \in SourceNames, k \in Keys :
        \/ \E r \in Revs : SourceAdded(s, k, r)
        \/ \E r \in Revs : SourceUpdated(s, k, r)
        \/ SourceDeleted(s, k)

----------------------------------------------------------------------------
(* main: rootCmd.Execute() has returned *)

Main ==
    /\ pc = "returned"
    /\ pc' = "exited"
    /\ exit' = IF err = "nil" THEN "exit0" ELSE "exitNonZero"
    /\ UNCHANGED <<adapter, command, err, client, vmsClient, mesh, tprClient,
                   registered, serviceController, configController,
                   syncersBuilt, ingressSyncer, failedStep, nilUses>>
    /\ UNCHANGED <<loopVars, cacheVars>>

----------------------------------------------------------------------------
(* Properties *)

Launched == {l \in Loops : loopState[l] # "Created"}

C2_EveryLoopGetsStop ==
    \A l \in Launched : loopStop[l] = "stop"

\* C3: the command does not return while a loop it started has not reached
\* Stopped (loops are joined on shutdown).
C3_NoReturnBeforeLoopsStopped ==
    pc \in {"returned", "exited"} => \A l \in Launched : loopState[l] = "Stopped"

\* C4: when a loop's start-up timeout has elapsed, the command ends with a
\* failure and with every loop it started Stopped.
C4_StartupRollback ==
    (pc \in {"returned", "exited"} /\ \E l \in Loops : timedOut[l])
        => (err = "error" /\ \A m \in Launched : loopState[m] = "Stopped")

\* C5: a failed construction step makes the function return a non-nil
\* error, with no loop started and no zero exit status.
C5_ConstructionFailureReturnsError ==
    failedStep # "none"
        => (err = "error" /\ Launched = {} /\ exit # "exit0")

\* C6: Get(K) is NotFound or one object, the object of the
\* earliest-registered source that holds K; in the discovery command's cache
\* the TPR source's object wins over the ingress source's.
C6_GetEarliestRegistered ==
    \A k \in Keys :
        /\ Get(k) \in Objects \cup {NotFound}
        /\ Get(k) = Winner(srcStore, k)
        /\ (Get(k) = NotFound) <=> (\A s \in SourceNames : srcStore[s][k] = NotFound)
        /\ srcStore["tpr"][k] # NotFound => Get(k) = srcStore["tpr"][k]

\* C6 witness: both sources hold an object for one key and Get returns the
\* TPR source's.
C6_Witness ==
    \E k \in Keys :
        /\ srcStore["tpr"][k] # NotFound
        /\ srcStore["ingress"][k] # NotFound
        /\ Get(k) = srcStore["tpr"][k]
        /\ Get(k) # srcStore["ingress"][k]

\* C7: a loop launched on a TPR config source (the TPR controller or the
\* aggregate cache that contains it) is launched after RegisterResources
\* succeeded.
C7_RegisteredBeforeTPRRun ==
    \A l \in Launched : loopOn[l] \in {"tpr", "aggregate"} => registered

\* C7 witness: the discovery command has launched the aggregate cache's Run.
C7_Witness ==
    /\ loopOn["config"] = "aggregate"
    /\ loopState["config"] = "Running"
    /\ registered

\* the syncer constructed for the selected adapter
SyncerFor(a) == IF a = VMsAdapter THEN "syncer(vmsClient)" ELSE "syncer(client)"

\* C8: on every path of the discovery command that reaches loop start-up
\* under the Kubernetes or VMs adapter, one ingress-status syncer was
\* constructed, and the one whose Run is started is the selected adapter's.
C8_OneSyncer ==
    (command = "discovery" /\ adapter \in {KubernetesAdapter, VMsAdapter}
       /\ pc \in {"L196", "L198", "L199", "L200", "L201", "L203"})
        => /\ syncersBuilt = 1
           /\ "syncer" \in Launched => loopOn["syncer"] = SyncerFor(adapter)

\* C9: a loop's state changes only one step along Created -> Starting ->
\* Running -> Stopping -> Stopped; it enters Running only with its first
\* sync done and is Stopping or Stopped only after having been Running.
C9_LifecycleOrder ==
    [][\A l \in Loops :
          /\ loopState'[l] # loopState[l]
               => <<loopState[l], loopState'[l]>> \in LifecycleSteps
          /\ loopState'[l] \in {"Running", "Stopping", "Stopped"} => synced'[l]]_vars

\* C9 witness: the stop signal fired while one loop was starting up, and
\* another loop has gone through its whole lifecycle.
C9_Witness ==
    \E l, m \in Loops :
        /\ stop
        /\ loopState[l] = "Starting"
        /\ loopState[m] = "Stopped"

\* C10: in the discovery and sidecar commands no loop is started on, and
\* no component is built from, a nil controller, client or mesh.
C10_NoNilHandleUsed ==
    command \in {"discovery", "sidecar"} => nilUses = {}

----------------------------------------------------------------------------
Next ==
    \/ PersistentPreRunE
    \/ DiscoveryCmd
    \/ SidecarCmd
    \/ IngressCmd
    \/ EgressCmd
    \/ WaitSignal
    \/ LoopStep
    \/ SourceEvent
    \/ Main

Spec == Init /\ [][Next]_vars
====
